---- MODULE Spec2Model ----
(***************************************************************************)
(* A model of pymedoc's Pathway driver (src/pymedoc/devices.py): the       *)
(* binary codec (_format_command, _format_response, _decode,               *)
(* _decode_test_time), the socket life cycle of call, the construction     *)
(* probe of __init__ and the polling loop of poll_for_change.              *)
(*                                                                         *)
(* One action is one stretch of a handler from its entry (or from the      *)
(* return of a blocking recv) to its next blocking recv or to its exit.    *)
(* The device and the network are the environment: each transmission       *)
(* attempt draws a network outcome and a reply buffer.                     *)
(***************************************************************************)
EXTENDS Integers, Sequences, FiniteSets, TLC

(***************************************************************************)
(* Bounds of the model.                                                    *)
(***************************************************************************)
\* Depth at which the interpreter stops the recursion of call (the model's
\* stand-in for the interpreter's recursion limit): one call invocation
\* makes at most MaxDepth transmission attempts.
MaxDepth == 3
\* Largest positive poll_max drawn as an input of poll_for_change.
MaxPollMax == 3
\* STATUS polls after which an unlimited poll_for_change is no longer stepped.
MaxPolls == 4

(***************************************************************************)
(* Python values.                                                          *)
(***************************************************************************)
\* protocol=None
None == -1
\* The empty dict {}.
EmptyDict == [k \in {} |-> 0]

Range(s) == {s[i] : i \in 1..Len(s)}

(***************************************************************************)
(* Code tables of Pathway.__init__.                                        *)
(***************************************************************************)
test_states == (0 :> "IDLE") @@ (1 :> "RUNNING") @@ (2 :> "PAUSED") @@ (3 :> "READY")

state_codes == (0 :> "IDLE") @@ (1 :> "READY") @@ (2 :> "TEST")

command_codes ==
    (0 :> "STATUS") @@ (1 :> "TEST_PROGRAM") @@ (2 :> "START") @@ (3 :> "PAUSE")
    @@ (4 :> "TRIGGER") @@ (5 :> "STOP") @@ (6 :> "ABORT") @@ (7 :> "YES") @@ (8 :> "NO")

response_codes ==
    (0 :> "RESULT_OK") @@ (1 :> "RESULT_ILLEGAL_ARG") @@ (2 :> "RESULT_ILLEGAL_STATE")
    @@ (3 :> "RESULT_ILLEGAL_TEST_STATE") @@ (4096 :> "RESULT_DEVICE_COMM_ERROR")
    @@ (8192 :> "RESULT_SAFETY_WARNING") @@ (16384 :> "RESULT_SAFETY_ERROR")

\* Byte offsets of the response fields: (first, end) of a slice, or one index.
segmentation_points ==
    [LENGTH_OFFSET |-> <<0, 4>>, TIMESTAMP_OFFSET |-> <<4, 8>>, COMMAND_OFFSET |-> 8,
     SYSTEM_STATE_OFFSET |-> 9, TEST_STATE_OFFSET |-> 10, RESULT_OFFSET |-> <<11, 13>>,
     TEST_TIME_OFFSET |-> <<13, 17>>, ERROR_MESSAGE_OFFSET |-> 17]

(***************************************************************************)
(* Bit strings: bin8, bin32 and int(s, 2).                                 *)
(***************************************************************************)
\* ''.join(reversed([str((x >> i) & 1) for i in range(8)])): 8 bits, most
\* significant first.
bin8(x) == [i \in 1..8 |-> (x \div (2 ^ (8 - i))) % 2]

\* x >> i, for i up to 31 (2^31 itself is past the integers of TLC).
shr(x, i) == IF i <= 30 THEN x \div (2 ^ i) ELSE (x \div (2 ^ 30)) \div (2 ^ (i - 30))

\* The same over 32 bits.
bin32(x) == [i \in 1..32 |-> shr(x, 32 - i) % 2]

\* int(bits, 2)
RECURSIVE int2upto(_, _)
int2upto(bits, n) == IF n = 0 THEN 0 ELSE 2 * int2upto(bits, n - 1) + bits[n]

int2(bits) == int2upto(bits, Len(bits))

\* list.reverse()
reverse(s) == [i \in 1..Len(s) |-> s[Len(s) + 1 - i]]

\* "".join(list of bit strings)
RECURSIVE join(_)
join(ss) == IF Len(ss) = 0 THEN <<>> ELSE ss[1] \o join(Tail(ss))

(***************************************************************************)
(* _decode: a multi-byte field of the response.                            *)
(***************************************************************************)
\* data_int[a:b]: a Python slice never raises, it stops at the end.
slice(data_int, a, b) ==
    IF a >= Len(data_int) THEN <<>>
    ELSE SubSeq(data_int, a + 1, IF b < Len(data_int) THEN b ELSE Len(data_int))

\* dat_int[i] for i in range(b - a) raises IndexError on a short slice.
decodeRaises(data_int, whichtime) ==
    LET a == segmentation_points[whichtime][1]
        b == segmentation_points[whichtime][2]
    IN  Len(slice(data_int, a, b)) < b - a

decode(data_int, whichtime) ==
    LET a == segmentation_points[whichtime][1]
        b == segmentation_points[whichtime][2]
        dat_int == slice(data_int, a, b)
        dat_bin == [i \in 1..(b - a) |-> bin8(dat_int[i])]
    IN  int2(join(reverse(dat_bin)))

(***************************************************************************)
(* _decode_test_time: '%.2d:%.2d:%.2d.%3d' % (hours, mins, secs, msecs).   *)
(***************************************************************************)
digit(d) ==
    CASE d = 0 -> "0" [] d = 1 -> "1" [] d = 2 -> "2" [] d = 3 -> "3" [] d = 4 -> "4"
      [] d = 5 -> "5" [] d = 6 -> "6" [] d = 7 -> "7" [] d = 8 -> "8" [] d = 9 -> "9"

\* '%d'
RECURSIVE fmt_d(_)
fmt_d(n) == IF n < 10 THEN digit(n) ELSE fmt_d(n \div 10) \o digit(n % 10)

\* '%.2d': precision 2, at least two digits, padded with zeros.
fmt_p2d(n) == IF n < 10 THEN "0" \o fmt_d(n) ELSE fmt_d(n)

\* '%3d': width 3, padded with spaces.
fmt_w3d(n) == IF n < 10 THEN "  " \o fmt_d(n) ELSE IF n < 100 THEN " " \o fmt_d(n) ELSE fmt_d(n)

test_time_string(test_time) ==
    LET hours == test_time \div 3600000
        mins == (test_time - (hours * 3600000)) \div 60000
        secs == (test_time - (hours * 3600000) - (mins * 60000)) \div 1000
        msecs == test_time - (hours * 3600000) - (mins * 60000) - (secs * 1000)
    IN  fmt_p2d(hours) \o ":" \o fmt_p2d(mins) \o ":" \o fmt_p2d(secs) \o "." \o fmt_w3d(msecs)

decode_test_time(data_int) == test_time_string(decode(data_int, "TEST_TIME_OFFSET"))

\* time.ctime(seconds): the local-time rendering of a timestamp, kept as the
\* rendered value's tag and its argument.
ctime(seconds) == <<"ctime", seconds>>
(***************************************************************************)
(* _format_response: the response dict, filled field by field until the    *)
(* first field that raises; the except clause swallows the exception and   *)
(* the dict filled so far is returned.                                     *)
(***************************************************************************)
\* The fields in the order the try block assigns them.
fieldOrder ==
    <<"response_length", "time_stamp", "command_id", "pathway_state", "test_state",
      "response", "test_time_stamp">>

\* data_int[offset] raises IndexError past the end, table[code] raises
\* KeyError on an unmapped code.
lookupRaises(data_int, offset, table) ==
    \/ offset >= Len(data_int)
    \/ data_int[offset + 1] \notin DOMAIN table

fieldRaises(data_int, f) ==
    CASE f = "response_length" -> decodeRaises(data_int, "LENGTH_OFFSET")
      [] f = "time_stamp" -> decodeRaises(data_int, "TIMESTAMP_OFFSET")
      [] f = "command_id" ->
            lookupRaises(data_int, segmentation_points["COMMAND_OFFSET"], command_codes)
      [] f = "pathway_state" ->
            lookupRaises(data_int, segmentation_points["SYSTEM_STATE_OFFSET"], state_codes)
      [] f = "test_state" ->
            lookupRaises(data_int, segmentation_points["TEST_STATE_OFFSET"], test_states)
      [] f = "response" ->
            \/ decodeRaises(data_int, "RESULT_OFFSET")
            \/ decode(data_int, "RESULT_OFFSET") \notin DOMAIN response_codes
      [] f = "test_time_stamp" -> decodeRaises(data_int, "TEST_TIME_OFFSET")

fieldValue(data_int, f) ==
    CASE f = "response_length" -> decode(data_int, "LENGTH_OFFSET")
      [] f = "time_stamp" -> ctime(decode(data_int, "TIMESTAMP_OFFSET"))
      [] f = "command_id" -> command_codes[data_int[segmentation_points["COMMAND_OFFSET"] + 1]]
      [] f = "pathway_state" ->
            state_codes[data_int[segmentation_points["SYSTEM_STATE_OFFSET"] + 1]]
      [] f = "test_state" -> test_states[data_int[segmentation_points["TEST_STATE_OFFSET"] + 1]]
      [] f = "response" -> response_codes[decode(data_int, "RESULT_OFFSET")]
      [] f = "test_time_stamp" -> decode_test_time(data_int)

\* How many fields of fieldOrder are assigned before one raises.
fieldsDecoded(data_int) ==
    CHOOSE n \in 0..Len(fieldOrder) :
        /\ \A j \in 1..n : ~fieldRaises(data_int, fieldOrder[j])
        /\ n < Len(fieldOrder) => fieldRaises(data_int, fieldOrder[n + 1])

\* Mutant of the test on response_length: 13 itself asks for the field.
errorMessageWanted_From13(data_int) ==
    /\ fieldsDecoded(data_int) = Len(fieldOrder)
    /\ decode(data_int, "LENGTH_OFFSET") >= 13

\* if response_dict['response_length'] > 13: response_dict['error_message'] = data[17]
errorMessageWanted(data_int) ==
    /\ fieldsDecoded(data_int) = Len(fieldOrder)
    /\ decode(data_int, "LENGTH_OFFSET") > 13

\* Whether the except clause ran ("ERROR FORMATTING RESPONSE" is printed).
formatRaised(data_int) ==
    \/ fieldsDecoded(data_int) < Len(fieldOrder)
    \/ /\ errorMessageWanted(data_int)
       /\ segmentation_points["ERROR_MESSAGE_OFFSET"] >= Len(data_int)

format_response(data) ==
    LET n == fieldsDecoded(data)
        response_dict == [f \in {fieldOrder[j] : j \in 1..n} |-> fieldValue(data, f)]
    IN  IF errorMessageWanted(data) /\ ~formatRaised(data)
        THEN response_dict
             @@ ("error_message" :> data[segmentation_points["ERROR_MESSAGE_OFFSET"] + 1])
        ELSE response_dict

(***************************************************************************)
(* _format_command: the outbound message.                                  *)
(***************************************************************************)
\* Mutant of the byte split: the list is not reversed (most significant
\* byte first).
split32_NotReversed(x) == [i \in 1..4 |-> int2(SubSeq(bin32(x), (i - 1) * 8 + 1, i * 8))]

\* The four bytes of a 32-bit value: bin32, cut into 8-bit groups, each read
\* with int(.., 2), the list reversed.
split32(x) == reverse([i \in 1..4 |-> int2(SubSeq(bin32(x), (i - 1) * 8 + 1, i * 8))])

\* MESSAGE.astype(np.uint8)
uint8(s) == [i \in 1..Len(s) |-> s[i] % 256]

\* `command == 1 and protocol`: the payload is present only for a truthy
\* protocol (neither None nor 0).
protocollist(command, protocol) ==
    IF command = 1 /\ protocol # None /\ protocol # 0 THEN split32(protocol) ELSE <<>>

format_command(command, protocol, now) ==
    LET MESSAGE == split32(now) \o <<command>> \o protocollist(command, protocol)
        sizelist == split32(Len(MESSAGE))
    IN  uint8(sizelist \o MESSAGE)
(***************************************************************************)
(* The environment: what the device and the network may answer.            *)
(***************************************************************************)
\* The n bytes of v as the device lays them out, least significant first.
deviceBytes(v, n) == [i \in 1..n |-> (v \div (256 ^ (i - 1))) % 256]

\* A reply as the device frames it: length, time stamp, echoed command,
\* pathway state, test state, result, test time, then the error text.
deviceFrame(rl, cmd, ps, ts, res, tt, text) ==
    deviceBytes(rl, 4) \o deviceBytes(1000, 4) \o <<cmd, ps, ts>> \o deviceBytes(res, 2)
    \o deviceBytes(tt, 4) \o text

take(s, n) == SubSeq(s, 1, n)

\* Well-formed replies.
GoodReplies ==
    { deviceFrame(13, 0, 0, 0, 0, 0, <<>>),
      deviceFrame(13, 0, 2, 1, 0, 3661001, <<>>),
      deviceFrame(13, 0, 1, 3, 16384, 1, <<>>),
      deviceFrame(14, 0, 2, 1, 2, 59999, <<69>>),
      deviceFrame(13, 0, 0, 0, 1, 0, <<>>),
      deviceFrame(13, 0, 0, 0, 3, 0, <<>>),
      deviceFrame(13, 0, 0, 0, 4096, 0, <<>>),
      deviceFrame(13, 0, 0, 0, 8192, 0, <<>>) }

\* Truncated replies, and replies with a code no table maps.
BadReplies ==
    { <<>>,
      take(deviceFrame(13, 0, 2, 1, 0, 0, <<>>), 3),
      take(deviceFrame(13, 0, 2, 1, 0, 0, <<>>), 8),
      take(deviceFrame(13, 0, 2, 1, 0, 0, <<>>), 10),
      take(deviceFrame(13, 0, 2, 1, 0, 0, <<>>), 12),
      deviceFrame(13, 9, 2, 1, 0, 0, <<>>),
      deviceFrame(13, 0, 2, 7, 0, 0, <<>>),
      deviceFrame(13, 0, 2, 1, 5, 0, <<>>),
      deviceFrame(14, 0, 2, 1, 0, 0, <<>>) }

Replies == GoodReplies \cup BadReplies

\* The network's part in one transmission attempt: it works, the connect
\* fails (socket.error), or recv times out (socket.timeout).
NetOutcomes == {"ok", "connect_fail", "recv_timeout"}

\* What one transmission attempt meets: a network outcome and, when the
\* network works, the bytes recv returns.
Outcomes ==
    {[net |-> "ok", data |-> d] : d \in Replies}
    \cup {[net |-> n, data |-> <<>>] : n \in NetOutcomes \ {"ok"}}

\* Values of int(time.time()) at encode time.
Clock == {1, 16909060}

(***************************************************************************)
(* Arguments of the operations.                                            *)
(***************************************************************************)
\* command (str/int): a command name or a command_id number.
Name(n) == [str |-> TRUE, name |-> n, code |-> 0]
Code(c) == [str |-> FALSE, name |-> "", code |-> c]

CommandArgs ==
    {Name("STATUS"), Name("TEST_PROGRAM"), Name("TRIGGER"), Name("BOGUS"), Code(1), Code(5)}

ProtocolArgs == {None, 0, 100}

WatchArgs == {"test_state", "pathway_state"}

DesiredArgs == {"", "RUNNING", "IDLE"}

PollMaxArgs == {-1, 0} \cup (1..MaxPollMax)

(***************************************************************************)
(* State.                                                                  *)
(***************************************************************************)
VARIABLES
    session,    \* "unconstructed", "constructing", "ready" or "failed"
    verbose,    \* self.verbose
    socket,     \* self.socket: 0 is None, else the connection it refers to
    conns,      \* the open connections
    frames,     \* the connection each suspended frame of call holds in `s`
    caller,     \* who waits for the call in progress: "none", "init", "user", "poll"
    args,       \* the arguments of the latest frame of call
    callRet,    \* how the latest call invocation stands: its response or error,
                \* and the bytes recv returned last
    io,         \* what the latest call invocation did, in order
    wire,       \* the message sent last
    poll,       \* the locals of poll_for_change and what it did
    codec       \* one application of the codec on its own: its input and its result

vars ==
    <<session, verbose, socket, conns, frames, caller, args, callRet, io, wire, poll, codec>>

NoArgs == [command |-> Code(0), protocol |-> None, reuse_socket |-> FALSE, verbose |-> FALSE]

NoCall == [status |-> "none", response |-> EmptyDict, error |-> "", data |-> <<>>]

PollIdle ==
    [pc |-> "idle", to_watch |-> "", desired_value |-> "", poll_max |-> -1, val |-> "",
     count |-> 1, ret |-> "none", error |-> "", polls |-> 0, lags |-> 0, matched |-> 0,
     last |-> ""]

\* No application of the codec on its own.
NoCodec ==
    [op |-> "none", done |-> FALSE, data |-> <<>>, response |-> EmptyDict, command |-> 0,
     protocol |-> None, now |-> 0, message |-> <<>>, v |-> 0, bytes |-> <<>>, back |-> 0]

Init ==
    /\ session = "unconstructed"
    /\ verbose = TRUE
    /\ socket = 0
    /\ conns = {}
    /\ frames = <<>>
    /\ caller = "none"
    /\ args = NoArgs
    /\ callRet = NoCall
    /\ io = <<>>
    /\ wire = <<>>
    /\ poll = PollIdle
    /\ codec = NoCodec
(***************************************************************************)
(* call: one transmission attempt, from the entry of a frame of call to    *)
(* its return, its raise or its recursive re-issue.                        *)
(***************************************************************************)
\* _create_connection: a new socket, connected. Connections are numbered
\* like file descriptors: the lowest number not open.
create_connection ==
    CHOOSE s \in 1..(Cardinality(conns) + 1) :
        s \notin conns /\ \A d \in 1..(s - 1) : d \in conns

\* Mutant of the reuse test: the request is let through.
reuseRaises_Never(reuse_socket) == FALSE

\* if reuse_socket: raise NotImplementedError(...)
reuseRaises(reuse_socket) == reuse_socket

\* command_codes.values().index(command) raises ValueError on an unknown name.
commandRaises(command) ==
    command.str /\ \A k \in DOMAIN command_codes : command_codes[k] # command.name

\* command_codes.keys()[command_codes.values().index(command)] for a name,
\* the number itself otherwise.
commandCode(command) ==
    IF command.str
    THEN CHOOSE k \in DOMAIN command_codes : command_codes[k] = command.name
    ELSE command.code

\* if command == 1 and protocol is None: raise ValueError
protocolMissing(command, protocol) == commandCode(command) = 1 /\ protocol = None

\* Mutant of the re-issue test: a result other than RESULT_OK is retried too.
mustReissue_NotOk(response) ==
    \/ DOMAIN response = {}
    \/ "response" \in DOMAIN response /\ response["response"] # "RESULT_OK"

\* if not response: return self.call(command, protocol, verbose=verbose)
mustReissue(response) == DOMAIN response = {}

\* print_flag: verbose if it is true, else self.verbose.
print_flag(verb, selfVerbose) == IF verb THEN verb ELSE selfVerbose

raised(error, s, events, message) ==
    [outcome |-> "raised", error |-> error, response |-> EmptyDict, socket |-> s,
     events |-> events, wire |-> message, data |-> <<>>]

\* response = self._format_response(data, nbytes), tabulated over the replies
\* the environment draws from.
responseOf == [data \in Replies |-> format_response(data)]

\* MESSAGE = self._format_command(command, protocol), tabulated over the
\* arguments the model draws from.
messageOf ==
    [command \in {commandCode(c) : c \in {x \in CommandArgs : ~commandRaises(x)}},
     protocol \in ProtocolArgs, now \in Clock |-> format_command(command, protocol, now)]

\* The body of call. `socket` of the result is self.socket afterwards.
callBody(command, protocol, reuse_socket, verb, selfVerbose, net, data, now) ==
    LET s == create_connection
        MESSAGE == messageOf[commandCode(command), protocol, now]
        response == responseOf[data]
    IN  IF reuseRaises(reuse_socket)
        THEN raised("NotImplementedError", socket, <<>>, wire)
        ELSE IF net = "connect_fail"
        THEN raised("socket.error", socket, <<"connect_failed">>, wire)
        ELSE IF commandRaises(command)
        THEN raised("ValueError", s, <<"connect">>, wire)
        ELSE IF protocolMissing(command, protocol)
        THEN raised("ValueError", s, <<"connect">>, wire)
        ELSE IF net = "recv_timeout"
        THEN raised("socket.timeout", s, <<"connect", "send", "sleep">>, MESSAGE)
        ELSE IF mustReissue(response)
        THEN [outcome |-> "reissue", error |-> "", response |-> response, socket |-> s,
              events |-> <<"connect", "send", "sleep", "recv">>, wire |-> MESSAGE,
              data |-> data]
        ELSE [outcome |-> "returned", error |-> "", response |-> response, socket |-> s,
              events |-> <<"connect", "send", "sleep", "recv">>
                         \o (IF print_flag(verb, selfVerbose) THEN <<"print">> ELSE <<>>),
              wire |-> MESSAGE, data |-> data]

\* The recursive re-issue is itself a call: at the interpreter's recursion
\* limit it raises RuntimeError instead of running.
recursionLimit(depth) == depth >= MaxDepth

attempt(command, protocol, reuse_socket, verb, selfVerbose, net, data, now) ==
    LET a == callBody(command, protocol, reuse_socket, verb, selfVerbose, net, data, now)
    IN  IF a.outcome = "reissue" /\ recursionLimit(Len(frames) + 1)
        THEN [a EXCEPT !.outcome = "raised", !.error = "RuntimeError"]
        ELSE a

\* A connection stays open while something refers to its socket object:
\* self.socket, or the local `s` of a frame of call that has not exited.
referenced(selfSocket, held) == ({selfSocket} \ {0}) \cup Range(held)

\* What an attempt leaves behind. `first` tells the first attempt of an
\* invocation from a re-issue; `dropped` tells that the session object itself
\* goes away with this attempt (__init__ raised), and self.socket with it.
\* A name that resolved is a number from then on.
callEffects(a, command, protocol, reuse_socket, verb, first, dropped) ==
    /\ socket' = IF dropped THEN 0 ELSE a.socket
    /\ frames' = IF a.outcome = "reissue" THEN Append(frames, a.socket) ELSE <<>>
    /\ conns' = referenced(socket', frames')
    /\ wire' = a.wire
    /\ io' = (IF first THEN <<>> ELSE io) \o a.events
    /\ args' = [command |-> IF commandRaises(command) THEN command
                             ELSE Code(commandCode(command)),
                 protocol |-> protocol, reuse_socket |-> reuse_socket, verbose |-> verb]
    /\ callRet' = [status |-> IF a.outcome = "reissue" THEN "pending" ELSE a.outcome,
                   response |-> a.response, error |-> a.error, data |-> a.data]

(***************************************************************************)
(* __init__: the construction probe.                                       *)
(***************************************************************************)
\* try: self.call('STATUS', verbose=False) / except: raise IOError(...)
constructed(a) ==
    IF a.outcome = "reissue" THEN "constructing"
    ELSE IF a.outcome = "returned" THEN "ready"
    ELSE "failed"

Construct(v, net, data, now) ==
    /\ session = "unconstructed"
    /\ \E a \in {attempt(Name("STATUS"), None, FALSE, FALSE, v, net, data, now)} :
       /\ callEffects(a, Name("STATUS"), None, FALSE, FALSE, TRUE, constructed(a) = "failed")
       /\ session' = constructed(a)
       /\ caller' = IF a.outcome = "reissue" THEN "init" ELSE "none"
    /\ verbose' = v
    /\ UNCHANGED <<poll, codec>>

(***************************************************************************)
(* The user of the session, as in examples/test_medoc.py: one operation    *)
(* after the other, each begun once the outcome of the one before has been *)
(* taken.                                                                  *)
(***************************************************************************)
\* The session is constructed and no operation is in progress or unread.
atRest ==
    /\ session = "ready"
    /\ caller = "none"
    /\ callRet.status = "none"
    /\ poll.pc = "idle"

\* An operation has ended: it returned or raised.
ended ==
    /\ session = "ready"
    /\ caller = "none"
    /\ \/ poll.pc = "done"
       \/ poll.pc = "idle" /\ callRet.status \in {"returned", "raised"}

\* The user takes the outcome and goes on: the locals of the operation and
\* the record of what it did are gone, the session keeps self.socket.
Return ==
    /\ ended
    /\ callRet' = NoCall
    /\ io' = <<>>
    /\ wire' = <<>>
    /\ poll' = PollIdle
    /\ args' = NoArgs
    /\ UNCHANGED <<session, verbose, socket, conns, frames, caller, codec>>

(***************************************************************************)
(* call, invoked by the user of the session.                               *)
(***************************************************************************)
Call(command, protocol, reuse_socket, verb, net, data, now) ==
    /\ atRest
    /\ \E a \in {attempt(command, protocol, reuse_socket, verb, verbose, net, data, now)} :
       /\ callEffects(a, command, protocol, reuse_socket, verb, TRUE, FALSE)
       /\ caller' = IF a.outcome = "reissue" THEN "user" ELSE "none"
    /\ UNCHANGED <<session, verbose, poll, codec>>

(***************************************************************************)
(* poll_for_change.                                                        *)
(***************************************************************************)
\* Mutant of the loop test: the loop never sees the desired value.
loopContinues_Always(val, desired_value) == TRUE

\* while val != desired_value
loopContinues(val, desired_value) == val # desired_value

\* Mutants of the limit test: the limit reached one poll early, and the
\* limit applied whatever its sign.
limitExceeded_OffByOne(poll_max, count) == poll_max > 0 /\ count >= poll_max

limitExceeded_Unguarded(poll_max, count) == count > poll_max

\* if poll_max > 0 and count > poll_max
limitExceeded(poll_max, count) == poll_max > 0 /\ count > poll_max

\* print("Polling limit exceeded"); return False
pollReturnFalse(p) == [p EXCEPT !.pc = "done", !.ret = "False"]

\* Mutant of the successful exit: True without the server_lag sleep.
pollReturnTrue_NoLag(p) == [p EXCEPT !.pc = "done", !.ret = "True"]

\* time.sleep(server_lag); return True
pollReturnTrue(p) == [p EXCEPT !.pc = "done", !.ret = "True", !.lags = @ + 1, !.last = "lag"]

\* An exception of the loop body leaves poll_for_change.
pollRaise(p, error) == [p EXCEPT !.pc = "done", !.ret = "raised", !.error = error]

\* if resp: val = resp[to_watch] (KeyError when the dict lacks the field)
\* else: val = 'RESPONSE_FORMAT_ERROR'
watchedRaises(resp, to_watch) == DOMAIN resp # {} /\ to_watch \notin DOMAIN resp

watched(resp, to_watch) ==
    IF DOMAIN resp # {} THEN resp[to_watch] ELSE "RESPONSE_FORMAT_ERROR"

\* val is assigned, time.sleep(poll_interval), count += 1.
pollBody(p, val) ==
    [p EXCEPT !.val = val, !.count = @ + 1, !.last = "interval",
              !.matched = IF @ = 0 /\ val = p.desired_value THEN p.polls ELSE @]

\* The limit test at the end of the loop body, then the loop test.
pollExit(p) ==
    IF limitExceeded(p.poll_max, p.count) THEN pollReturnFalse(p)
    ELSE IF loopContinues(p.val, p.desired_value) THEN [p EXCEPT !.pc = "polling"]
    ELSE pollReturnTrue(p)

\* The rest of the loop once call('STATUS') has ended.
pollAfter(p, a) ==
    IF a.outcome = "reissue" THEN [p EXCEPT !.pc = "calling"]
    ELSE IF a.outcome = "raised" THEN pollRaise(p, a.error)
    ELSE IF watchedRaises(a.response, p.to_watch) THEN pollRaise(p, "KeyError")
    ELSE pollExit(pollBody(p, watched(a.response, p.to_watch)))

\* val = '' and count = 1 on entry.
pollEntry(to_watch, desired_value, poll_max) ==
    [PollIdle EXCEPT !.to_watch = to_watch, !.desired_value = desired_value,
                     !.poll_max = poll_max]

\* One more resp = self.call('STATUS', reuse_socket=False).
pollIssue(p) == [p EXCEPT !.polls = @ + 1, !.last = "call"]

PollStart(to_watch, desired_value, poll_max, net, data, now) ==
    /\ atRest
    /\ LET p == pollEntry(to_watch, desired_value, poll_max)
       IN  IF loopContinues(p.val, desired_value)
           THEN \E a \in {attempt(Name("STATUS"), None, FALSE, FALSE, verbose, net, data,
                                    now)} :
                /\ callEffects(a, Name("STATUS"), None, FALSE, FALSE, TRUE, FALSE)
                /\ caller' = IF a.outcome = "reissue" THEN "poll" ELSE "none"
                /\ poll' = pollAfter(pollIssue(p), a)
           ELSE /\ poll' = pollReturnTrue(p)
                /\ UNCHANGED <<socket, conns, frames, caller, args, callRet, io, wire>>
    /\ UNCHANGED <<session, verbose, codec>>

PollNext(net, data, now) ==
    /\ poll.pc = "polling"
    /\ caller = "none"
    /\ poll.polls < MaxPolls
    /\ \E a \in {attempt(Name("STATUS"), None, FALSE, FALSE, verbose, net, data, now)} :
       /\ callEffects(a, Name("STATUS"), None, FALSE, FALSE, TRUE, FALSE)
       /\ caller' = IF a.outcome = "reissue" THEN "poll" ELSE "none"
       /\ poll' = pollAfter(pollIssue(poll), a)
    /\ UNCHANGED <<session, verbose, codec>>

(***************************************************************************)
(* The recursive re-issue of call, whoever waits for it.                   *)
(***************************************************************************)
CallRetry(net, data, now) ==
    /\ frames # <<>>
    /\ \E a \in {attempt(args.command, args.protocol, FALSE, args.verbose, verbose, net, data,
                        now)} :
       /\ callEffects(a, args.command, args.protocol, FALSE, args.verbose, FALSE,
                      caller = "init" /\ constructed(a) = "failed")
       /\ caller' = IF a.outcome = "reissue" THEN caller ELSE "none"
       /\ session' = IF caller = "init" THEN constructed(a) ELSE session
       /\ poll' = IF caller = "poll" THEN pollAfter(poll, a) ELSE poll
    /\ UNCHANGED <<verbose, codec>>

Next ==
    \/ \E v \in BOOLEAN, e \in Outcomes, now \in Clock : Construct(v, e.net, e.data, now)
    \/ \E command \in CommandArgs, protocol \in ProtocolArgs, reuse_socket \in BOOLEAN,
          verb \in BOOLEAN, e \in Outcomes, now \in Clock :
          Call(command, protocol, reuse_socket, verb, e.net, e.data, now)
    \/ \E to_watch \in WatchArgs, desired_value \in DesiredArgs, poll_max \in PollMaxArgs,
          e \in Outcomes, now \in Clock :
          PollStart(to_watch, desired_value, poll_max, e.net, e.data, now)
    \/ \E e \in Outcomes, now \in Clock : PollNext(e.net, e.data, now)
    \/ \E e \in Outcomes, now \in Clock : CallRetry(e.net, e.data, now)
    \/ Return

Spec == Init /\ [][Next]_vars
(***************************************************************************)
(* The codec on its own: _format_response, _format_command and the         *)
(* encoder's byte split against _decode, each applied once to an input     *)
(* drawn from the sets below. The session takes no part in it.             *)
(***************************************************************************)
\* Raw test times, in milliseconds.
TestTimes ==
    {0, 1, 9, 10, 99, 100, 999, 1000, 59999, 60000, 3599999, 3600000, 3661001, 86399999,
     360000000}

\* Values of the response_length field, and the bytes after the test time.
ResponseLengths == {0, 13, 14, 300}

ErrorTexts == {<<>>, <<69>>, <<69, 114>>}

\* The buffers _format_response is applied to: the replies of the
\* environment, frames of every response length with 17, 18 and 19 bytes,
\* frames with every mapped result code, frames with the test times.
Buffers ==
    Replies
    \cup {deviceFrame(rl, 0, 2, 1, 0, 0, text) : rl \in ResponseLengths, text \in ErrorTexts}
    \cup {deviceFrame(13, 0, 2, 1, res, 0, <<>>) : res \in DOMAIN response_codes}
    \cup {deviceFrame(13, 0, 2, 1, 0, tt, <<>>) : tt \in TestTimes}

\* 32-bit values the encoder splits (below 2^31, the integers of TLC).
Values32 ==
    {0, 1, 100, 255, 256, 257, 65535, 65536, 16777215, 16777216, 16909060, 2147483647}

\* Protocol arguments of the encoder.
CodecProtocols == ProtocolArgs \cup Values32

CodecInputs ==
    {[NoCodec EXCEPT !.op = "decode", !.data = d] : d \in Buffers}
    \cup {[NoCodec EXCEPT !.op = "encode", !.command = c, !.protocol = p, !.now = t] :
            c \in DOMAIN command_codes, p \in CodecProtocols, t \in Clock}
    \cup {[NoCodec EXCEPT !.op = "roundtrip", !.v = v] : v \in Values32}

CodecInit ==
    /\ session = "unconstructed"
    /\ verbose = TRUE
    /\ socket = 0
    /\ conns = {}
    /\ frames = <<>>
    /\ caller = "none"
    /\ args = NoArgs
    /\ callRet = NoCall
    /\ io = <<>>
    /\ wire = <<>>
    /\ poll = PollIdle
    /\ codec \in CodecInputs

sessionVars == <<session, verbose, socket, conns, frames, caller, args, callRet, io, wire, poll>>

\* response = self._format_response(data, nbytes)
DecodeResponse ==
    /\ codec.op = "decode"
    /\ ~codec.done
    /\ codec' = [codec EXCEPT !.done = TRUE, !.response = format_response(codec.data)]
    /\ UNCHANGED sessionVars

\* MESSAGE = self._format_command(command, protocol)
EncodeCommand ==
    /\ codec.op = "encode"
    /\ ~codec.done
    /\ codec' = [codec EXCEPT !.done = TRUE,
                              !.message = format_command(codec.command, codec.protocol,
                                                         codec.now)]
    /\ UNCHANGED sessionVars

\* The four bytes the encoder emits for a value, read back by _decode as a
\* four-byte field.
RoundTrip ==
    /\ codec.op = "roundtrip"
    /\ ~codec.done
    /\ \E bytes \in {uint8(split32(codec.v))} :
          codec' = [codec EXCEPT !.done = TRUE, !.bytes = bytes,
                                 !.back = decode(bytes, "LENGTH_OFFSET")]
    /\ UNCHANGED sessionVars

CodecNext == DecodeResponse \/ EncodeCommand \/ RoundTrip

CodecSpec == CodecInit /\ [][CodecNext]_vars
(***************************************************************************)
(* poll_for_change without a limit, against a device that answers every    *)
(* STATUS with a well-formed response and that, from some poll on, reports *)
(* the desired value in the watched field. The loop is sequential code:    *)
(* its next poll is taken whenever it can be (weak fairness).              *)
(***************************************************************************)
\* The reply reports the desired value in the watched field.
reports(data, to_watch, desired_value) ==
    watched(responseOf[data], to_watch) = desired_value

\* The poll from which on the device reports the desired value: the
\* MaxPolls-th at the latest.
settled(polls) == polls + 1 >= MaxPolls

\* What the device may answer to the next poll of p.
LiveReplies(p) ==
    {data \in GoodReplies :
        settled(p.polls) => reports(data, p.to_watch, p.desired_value)}

LiveConstruct(v, data, now) == Construct(v, "ok", data, now)

LivePollStart(to_watch, desired_value, poll_max, data, now) ==
    /\ poll_max <= 0
    /\ \E d \in GoodReplies : reports(d, to_watch, desired_value)
    /\ data \in LiveReplies(pollEntry(to_watch, desired_value, poll_max))
    /\ PollStart(to_watch, desired_value, poll_max, "ok", data, now)

LivePollNext(data, now) ==
    /\ data \in LiveReplies(poll)
    /\ PollNext("ok", data, now)

\* The next step of a loop in progress.
LivePolling == \E data \in GoodReplies, now \in Clock : LivePollNext(data, now)

LiveNext ==
    \/ \E v \in BOOLEAN, data \in GoodReplies, now \in Clock : LiveConstruct(v, data, now)
    \/ \E to_watch \in WatchArgs, desired_value \in DesiredArgs, poll_max \in PollMaxArgs,
          data \in GoodReplies, now \in Clock :
          LivePollStart(to_watch, desired_value, poll_max, data, now)
    \/ LivePolling
    \/ Return

LiveSpec == Init /\ [][LiveNext]_vars /\ WF_vars(LivePolling)
(***************************************************************************)
(* Properties.                                                             *)
(***************************************************************************)
\* How often an event occurs in a record of what a call did.
occurrences(events, e) == Cardinality({i \in 1..Len(events) : events[i] = e})

\* The seven fields every response is to carry.
complete(response) == Range(fieldOrder) \subseteq DOMAIN response

\* A call invocation has ended: it returned or it raised.
callEnded == callRet.status \in {"returned", "raised"}

\* C1: with a limit N > 0 and no STATUS response that carries the desired
\* value, poll_for_change issues exactly N polls and then returns False,
\* without the server_lag sleep: it never issues more than N polls, it is not
\* left polling after the N-th, and when it has returned, it returned False
\* after N polls and no server_lag sleep. (The desired value '' equals the
\* initial value of val and is met by no response at all; it is the case of
\* C17.)
C1_NoMatchExhaustsLimit ==
    (/\ poll.poll_max > 0
     /\ poll.desired_value # ""
     /\ poll.matched = 0
     /\ poll.ret # "raised")
    => /\ poll.polls <= poll.poll_max
       /\ poll.pc = "polling" => poll.polls < poll.poll_max
       /\ poll.pc = "done" =>
             poll.ret = "False" /\ poll.polls = poll.poll_max /\ poll.lags = 0

C1_Witness ==
    /\ poll.pc = "done"
    /\ poll.ret = "False"
    /\ poll.poll_max = 3
    /\ poll.polls = 3
    /\ poll.matched = 0
    /\ poll.lags = 0

\* C2: if the k-th poll, 1 <= k <= N, is the first whose watched field equals
\* the desired value, poll_for_change stops there and returns True; it
\* returns False only when none of the first N polls matched. (Stated on
\* polls whose last response decoded fully.)
C2_FalseOnlyWithoutMatch ==
    complete(callRet.response) =>
        /\ poll.ret = "False" => poll.matched = 0
        /\ (poll.pc = "done" /\ poll.matched # 0) => poll.ret = "True"

\* C3: a malformed, truncated or unusable STATUS reply never ends
\* poll_for_change with an error: no KeyError from a response that lacks the
\* watched field, no RuntimeError from re-issuing without end.
C3_MalformedReplyKeepsPolling ==
    ~(poll.ret = "raised" /\ poll.error \in {"KeyError", "RuntimeError"})

\* C4: one invocation of call transmits the command at most twice.
C4_AtMostOneReissue == occurrences(io, "send") <= 2

\* C5: when a call has returned or raised, no connection it opened is open.
C5_SocketsReleased == (caller = "none" /\ callEnded) => conns = {}

\* C6: call with TEST_PROGRAM (by name or as 1) and no protocol number fails
\* with ValueError and does no socket I/O: nothing connected, sent, received.
C6_MissingProtocolNoIO ==
    (/\ callEnded
     /\ ~args.reuse_socket
     /\ ~commandRaises(args.command)
     /\ protocolMissing(args.command, args.protocol))
    => callRet.status = "raised" /\ callRet.error = "ValueError" /\ io = <<>>

\* C7: a reply too short for a field, or with an unmapped code, is never
\* decoded into a partly filled response: every response call returns holds
\* all seven fields.
C7_ReturnedResponseComplete == callRet.status = "returned" => complete(callRet.response)

\* C8: construction succeeds only on a probe reply that decoded fully.
C8_ConstructedOnlyOnCompleteProbe ==
    [][(session # "ready" /\ session' = "ready") => complete(callRet'.response)]_vars

\* C9: whenever poll_for_change returns True it has slept server_lag exactly
\* once, as the last thing before returning, after the poll that matched, and
\* it issued no poll after the matching one; it sleeps server_lag in no other
\* case.
C9_LagOnceAfterMatch ==
    /\ poll.ret = "True" =>
          /\ poll.lags = 1
          /\ poll.last = "lag"
          /\ poll.val = poll.desired_value
          /\ poll.polls > 0 => poll.matched = poll.polls
    /\ poll.ret # "True" => poll.lags = 0
    /\ poll.matched # 0 => poll.matched = poll.polls

C9_Witness ==
    /\ poll.ret = "True"
    /\ poll.polls = 2
    /\ poll.matched = 2
    /\ poll.lags = 1

\* C10: with poll_max <= 0 poll_for_change never returns False, however many
\* polls fail to match; when it returns True, val is the desired value.
C10_UnlimitedNeverFalse ==
    poll.poll_max <= 0 =>
        /\ poll.ret # "False"
        /\ poll.ret = "True" => poll.val = poll.desired_value

C10_Witness ==
    /\ poll.poll_max = 0
    /\ poll.polls > MaxPollMax
    /\ poll.ret = "True"
    /\ poll.matched = poll.polls

\* The length the response announces, for a buffer that holds the field.
announced(data) == decode(data, "LENGTH_OFFSET")

\* C11: a buffer of 18 bytes or more that decodes in all seven fields and
\* announces a response_length above 13 yields an error_message field; a
\* buffer of exactly 17 bytes yields none, and a buffer that announces a
\* response_length of 13 or less yields none (the field is absent from the
\* response, not empty).
C11_ErrorMessagePresence ==
    (codec.op = "decode" /\ codec.done) =>
        /\ (/\ Len(codec.data) >= 18
            /\ complete(codec.response)
            /\ announced(codec.data) > 13)
           => "error_message" \in DOMAIN codec.response
        /\ Len(codec.data) = 17 => "error_message" \notin DOMAIN codec.response
        /\ (~decodeRaises(codec.data, "LENGTH_OFFSET") /\ announced(codec.data) <= 13)
           => "error_message" \notin DOMAIN codec.response

C11_Witness ==
    /\ codec.op = "decode"
    /\ codec.done
    /\ Len(codec.data) = 19
    /\ announced(codec.data) = 300
    /\ "error_message" \in DOMAIN codec.response
    /\ codec.response["error_message"] = 69

\* n in decimal, in at least w digits, padded with zeros on the left.
RECURSIVE zeroPadded(_, _)
zeroPadded(n, w) ==
    IF w > 1 /\ n < 10 ^ (w - 1) THEN "0" \o zeroPadded(n, w - 1) ELSE fmt_d(n)

\* HH:MM:SS.mmm of a millisecond count t.
clockString(t) ==
    zeroPadded(t \div 3600000, 2) \o ":" \o zeroPadded((t % 3600000) \div 60000, 2) \o ":"
    \o zeroPadded((t % 60000) \div 1000, 2) \o "." \o zeroPadded(t % 1000, 3)

\* C12: the test_time_stamp of a decoded response is the raw millisecond
\* count of the buffer rendered as zero-padded HH:MM:SS.mmm, the milliseconds
\* in three digits: 3661001 gives "01:01:01.001" and 0 gives "00:00:00.000".
C12_TestTimeZeroPadded ==
    (/\ codec.op = "decode"
     /\ codec.done
     /\ "test_time_stamp" \in DOMAIN codec.response)
    => codec.response["test_time_stamp"] = clockString(decode(codec.data, "TEST_TIME_OFFSET"))

\* The protocol bytes of an encoded message, where it carries them.
payload(message) == SubSeq(message, 10, Len(message))

\* C13: the four bytes the encoder emits for a 32-bit value v decode, under
\* the multi-byte rule of _decode, back to v; and an encoded message read as
\* an echo gives back what went in: the command at offset 8 maps to the name
\* of the command encoded, the time stamp field decodes to the time encoded,
\* and the protocol bytes, where present, decode to the protocol number.
C13_CodecSymmetry ==
    /\ (codec.op = "roundtrip" /\ codec.done) => codec.back = codec.v
    /\ (codec.op = "encode" /\ codec.done) =>
          /\ ~fieldRaises(codec.message, "command_id")
          /\ fieldValue(codec.message, "command_id") = command_codes[codec.command]
          /\ decode(codec.message, "TIMESTAMP_OFFSET") = codec.now
          /\ Len(payload(codec.message)) = 4 =>
                decode(payload(codec.message), "LENGTH_OFFSET") = codec.protocol

C13_Witness ==
    /\ codec.op = "roundtrip"
    /\ codec.done
    /\ codec.v = 16909060
    /\ codec.bytes = <<4, 3, 2, 1>>
    /\ codec.back = 16909060

\* C14: whenever call has sent a message, the length prefix of the message
\* is the number of elements that follow it, and that number is 9 when the
\* command is TEST_PROGRAM and the protocol argument is not None, 5 in every
\* other case.
C14_LengthPrefixCountsElements ==
    occurrences(io, "send") > 0 =>
        /\ decode(wire, "LENGTH_OFFSET") = Len(wire) - 4
        /\ Len(wire) - 4 = IF commandCode(args.command) = 1 /\ args.protocol # None
                           THEN 9 ELSE 5

\* C15: a call that asks to reuse the socket ends with an error
\* (NotImplementedError), and the step that makes it opens no connection,
\* sends nothing and leaves self.socket and the open connections as they were.
C15_ReuseFailsUntouched ==
    [][args'.reuse_socket =>
          /\ callRet'.status = "raised"
          /\ callRet'.error = "NotImplementedError"
          /\ io' = <<>>
          /\ wire' = <<>>
          /\ socket' = socket
          /\ conns' = conns]_vars

C15_Witness ==
    /\ args.reuse_socket
    /\ callRet.status = "raised"
    /\ callRet.error = "NotImplementedError"
    /\ socket # 0
    /\ io = <<>>

\* A reply that decodes without an exception, in all its fields.
wellFormed(data) == fieldsDecoded(data) = Len(fieldOrder) /\ ~formatRaised(data)

\* C16: when the bytes a call received last are a well-formed response whose
\* result code is mapped and is not RESULT_OK, the call has returned (it has
\* not raised and is not re-issuing), and the response it returned carries
\* the name of that result code.
C16_NonOkResultReturnedAsData ==
    (/\ callRet.status # "none"
     /\ callRet.data # <<>>
     /\ wellFormed(callRet.data)
     /\ decode(callRet.data, "RESULT_OFFSET") # 0)
    => /\ callRet.status = "returned"
       /\ callRet.response["response"] = response_codes[decode(callRet.data, "RESULT_OFFSET")]

C16_Witness ==
    /\ callRet.status = "returned"
    /\ wellFormed(callRet.data)
    /\ decode(callRet.data, "RESULT_OFFSET") = 16384
    /\ callRet.response["response"] = "RESULT_SAFETY_ERROR"
    /\ commandCode(args.command) = 4
    /\ occurrences(io, "send") = 1

\* C17: for every desired value, poll_for_change returns True only after a
\* STATUS response was received whose watched field equals the desired
\* value, and that response is the last one received.
C17_TrueOnlyAfterMatchingResponse ==
    poll.ret = "True" =>
        /\ poll.polls > 0
        /\ poll.matched = poll.polls
        /\ ~watchedRaises(callRet.response, poll.to_watch)
        /\ watched(callRet.response, poll.to_watch) = poll.desired_value

\* The event at place i of a call's record is preceded by the event `before`.
follows(events, i, before) == i > 1 /\ events[i - 1] = before

\* C18: in the record of a call invocation, over its first attempt and every
\* re-issue, each send comes right after a connect, each settling sleep right
\* after a send and each recv right after a sleep; and as many connections
\* were opened as commands were sent.
C18_ConnectSendSleepRecv ==
    /\ \A i \in 1..Len(io) :
          /\ io[i] = "send" => follows(io, i, "connect")
          /\ io[i] = "sleep" => follows(io, i, "send")
          /\ io[i] = "recv" => follows(io, i, "sleep")
    /\ occurrences(io, "connect") = occurrences(io, "send")

\* C19: with poll_max <= 0, against a device that answers every STATUS with
\* a well-formed response and from some poll on reports the desired value,
\* a poll_for_change in progress eventually returns True.
C19_UnlimitedPollTerminates ==
    (poll.pc = "polling" /\ poll.poll_max <= 0) ~> (poll.pc = "done" /\ poll.ret = "True")

C19_Witness ==
    /\ poll.pc = "done"
    /\ poll.ret = "True"
    /\ poll.poll_max <= 0
    /\ poll.desired_value = "RUNNING"
    /\ poll.polls >= 3
    /\ poll.matched = poll.polls

\* C20: a call that returned has printed its response exactly when its own
\* verbose argument was true, whatever self.verbose is: in particular the
\* construction probe, called with verbose=False, prints nothing.
C20_PrintedIffCallFlag ==
    callRet.status = "returned" => (occurrences(io, "print") > 0 <=> args.verbose)
====
